---- MODULE Spec2Model ----
(***************************************************************************)
(* Model of the job pipeline of runpod-worker-comfy (src/src/rp_handler.py *)
(* with src/src/trigger.py, src/src/supabase.py and src/src/job.py).       *)
(*                                                                         *)
(* One job runs through handler(job).  The engine, the file system, the    *)
(* object storage and the trigger backend are external: every response     *)
(* they can give is drawn with \E in the action that makes the call.       *)
(* Strings that the code takes apart or builds (paths, object keys, URLs,  *)
(* JSON text) are sequences of tokens; "/" and "." are tokens of their own.*)
(***************************************************************************)
EXTENDS Integers, Sequences, FiniteSets, TLC

(* ------------------------------ bounds -------------------------------- *)
\* longest images list and longest file_urls list of a payload
MaxItems == 2
\* COMFY_API_AVAILABLE_MAX_RETRIES (500 in the source), scaled down
ApiMaxRetries == 2
\* COMFY_POLLING_MAX_RETRIES (5000 by default in the source), scaled down
PollMaxRetries == 2
\* most status fetches of one job that find a record with neither error nor outputs
MaxPending == 1

(* ------------------------------ values -------------------------------- *)
\* Python's None, also an absent key of a payload
None == [t |-> "none"]

Str(s) == [t |-> "str", v |-> s]
List(l) == [t |-> "list", v |-> l]

RECURSIVE SeqsUpTo(_, _)
\* all sequences over S of length 0..n
SeqsUpTo(S, n) ==
  IF n = 0 THEN {<<>>}
  ELSE LET shorter == SeqsUpTo(S, n - 1)
       IN shorter \cup {Append(s, x) : s \in {q \in shorter : Len(q) = n - 1}, x \in S}

\* names of the items of a payload's lists, by position
ImageNames == <<"img1", "img2", "img3", "img4", "img5", "img6">>
FileNames == <<"file1", "file2", "file3", "file4", "file5", "file6">>

\* List[ComfyImageInput] with the given contents: each image is base64 text
\* that decodes ("b64ok") or text that b64decode rejects ("b64bad")
Images(kinds) == [i \in 1..Len(kinds) |-> [name |-> ImageNames[i], image |-> kinds[i]]]
\* List[ComfyFileUrlInput] of n items
FileUrls(n) == [i \in 1..n |-> [name |-> FileNames[i], url |-> <<"http://src/", FileNames[i]>>]]

JobId == Str("job1")
Workflow == [t |-> "dict", v |-> "wf"]

\* ComfyOutput; type is Literal["s3", "url"]
OutputDef(type) == [type |-> type, bucket |-> "bkt", endpoint_url |-> <<"http://s3", "/">>, key_prefix |-> "FOO"]
OutputDefs == {OutputDef("s3"), OutputDef("url")}

SupabaseTrigger ==
  [service |-> "supabase", key_prefix |-> "FOO", table |-> "jobs", id_field |-> "id",
   output_field |-> "output", status_field |-> Str("status"), id |-> "someid", status |-> Str("completed")]
\* a trigger whose service tag is not "supabase"
OtherTrigger == [SupabaseTrigger EXCEPT !.service = "other"]

\* the "input" of the sample job of tests/conftest.py; an absent list is <<>>
\* (the code tells None and [] apart nowhere: `if not images`)
FixtureInput ==
  [workflow |-> Workflow,
   images |-> Images(<<"b64bad">>),
   file_urls |-> FileUrls(1),
   output |-> OutputDef("s3"),
   trigger |-> SupabaseTrigger]

\* a validated input: {workflow, images?, file_urls?, output?, trigger?}
Input(ks, n, o, tr) ==
  [workflow |-> Workflow, images |-> Images(ks), file_urls |-> FileUrls(n), output |-> o, trigger |-> tr]

\* the process environment: which variables are set
Env(su, sk, ai, as, be, pm, rw) ==
  [supabase_url |-> su, supabase_key |-> sk, aws_id |-> ai, aws_secret |-> as,
   bucket_endpoint |-> be, poll_max_set |-> pm, refresh |-> rw]

\* COMFY_POLLING_MAX_RETRIES and REFRESH_WORKER set or not
ModuleEnvs == {<<FALSE, FALSE>>, <<FALSE, TRUE>>, <<TRUE, FALSE>>}

\* a credential pair: both set, or one of the two missing
CredentialPairs == {<<TRUE, TRUE>>, <<FALSE, TRUE>>, <<TRUE, FALSE>>}

\* the jobs with the given lists, output configuration and trigger, under
\* every environment such a job reads
ConfigJobs(ks, o, tr) ==
  {[payload |-> [id |-> JobId, input |-> Input(ks, Len(ks), o, tr)],
    env |-> Env(tc[1], tc[2], ac[1], ac[2], be, m[1], m[2])] :
      tc \in IF tr = None THEN {<<FALSE, FALSE>>} ELSE CredentialPairs,
      ac \in IF o = OutputDef("s3") THEN CredentialPairs ELSE {<<FALSE, FALSE>>},
      be \in IF o = OutputDef("s3") THEN {FALSE} ELSE BOOLEAN,
      m \in ModuleEnvs}

\* the jobs handler is run on, each a payload {id?, input} with the
\* environment of the process:
\*  - every images list and every file_urls list up to MaxItems, with
\*    neither output nor trigger;
\*  - every output configuration and trigger, with no lists or with one
\*    image and one file, under every environment the job reads;
\*  - the fixture of the tests, which has no id, and three variants of it
Jobs ==
  {[payload |-> [id |-> JobId, input |-> Input(ks, 0, None, None)],
    env |-> Env(FALSE, FALSE, FALSE, FALSE, FALSE, m[1], m[2])] :
      ks \in SeqsUpTo({"b64ok", "b64bad"}, MaxItems), m \in ModuleEnvs}
  \cup {[payload |-> [id |-> JobId, input |-> Input(<<>>, n, None, None)],
         env |-> Env(FALSE, FALSE, FALSE, FALSE, FALSE, m[1], m[2])] :
      n \in 0..MaxItems, m \in ModuleEnvs}
  \cup UNION {ConfigJobs(ks, o, tr) :
      ks \in {<<>>, <<"b64ok">>}, o \in {None} \cup OutputDefs, tr \in {None, SupabaseTrigger}}
  \cup {[payload |-> p, env |-> Env(TRUE, TRUE, TRUE, TRUE, FALSE, FALSE, FALSE)] :
      p \in {[id |-> None, input |-> FixtureInput],
             [id |-> JobId, input |-> [FixtureInput EXCEPT !.workflow = None]],
             [id |-> None, input |-> [FixtureInput EXCEPT !.workflow = None]],
             [id |-> JobId, input |-> [FixtureInput EXCEPT !.trigger = OtherTrigger]]}}

\* COMFY_POLLING_MAX_RETRIES = os.environ.get("COMFY_POLLING_MAX_RETRIES", 5000):
\* the int default, or the str the environment holds.  (The interval
\* COMFY_POLLING_INTERVAL_MS is read the same way; it is left at its default.)
COMFY_POLLING_MAX_RETRIES(e) ==
  IF e.poll_max_set THEN Str("max") ELSE [t |-> "int", v |-> PollMaxRetries]

\* REFRESH_WORKER = os.environ.get("REFRESH_WORKER", "false").lower() == "true"
REFRESH_WORKER(e) == e.refresh

\* one external call as recorded in io: the operation, what it was about
\* (tokens) and the response it met
Call(op, arg, resp) == [op |-> op, arg |-> arg, resp |-> resp]

(* --------------------------- input validation ------------------------- *)
\* ComfyWorkerJob(**kwargs): pydantic checks the required fields id and
\* workflow and the trigger's discriminator; errors names the fields at fault
ComfyWorkerJob(kwargs) ==
  LET errors == (IF kwargs.id = None THEN {"id"} ELSE {})
                \cup (IF kwargs.workflow = None THEN {"workflow"} ELSE {})
                \cup (IF kwargs.trigger # None /\ kwargs.trigger.service # "supabase"
                      THEN {"trigger"} ELSE {})
  IN IF errors = {} THEN [ok |-> TRUE, job |-> kwargs, errors |-> {}]
     ELSE [ok |-> FALSE, job |-> None, errors |-> errors]

(* ------------------------------ trigger ------------------------------- *)
\* validate with the test of SUPABASE_KEY left out
validate_url_only(trigger, e) ==
  IF ~e.supabase_url THEN [t |-> "ValueError", v |-> "SUPABASE_URL not set in environment"]
  ELSE None

\* SupabaseTriggerHandler.validate: the exception it raises, None if none
validate(trigger, e) ==
  IF ~e.supabase_url THEN [t |-> "ValueError", v |-> "SUPABASE_URL not set in environment"]
  ELSE IF ~e.supabase_key THEN [t |-> "ValueError", v |-> "SUPABASE_KEY not set in environment"]
  ELSE None

\* create_trigger_handler(job_trigger): the handler, or the ValueError raised
create_trigger_handler(job_trigger, e) ==
  IF job_trigger.service = "supabase"
  THEN IF validate(job_trigger, e) = None
       THEN [raised |-> None, value |-> [trigger |-> job_trigger]]
       ELSE [raised |-> validate(job_trigger, e), value |-> None]
  ELSE [raised |-> [t |-> "ValueError", v |-> "Unsupported service"], value |-> None]

(* ------------------------- availability probe ------------------------- *)
\* what GET http://COMFY_HOST can give: 200, another status, RequestException
ProbeResponses == {"200", "503", "exc"}

RECURSIVE check_server_from(_, _, _)
\* the loop of check_server from attempt i on: [value, requests]
check_server_from(i, retries, resps) ==
  IF i > retries THEN [value |-> FALSE, requests |-> retries]
  ELSE IF resps[i] = "200" THEN [value |-> TRUE, requests |-> i]
  ELSE check_server_from(i + 1, retries, resps)

\* check_server going through all its attempts, whatever the responses
check_server_no_early_return(retries, resps) ==
  [value |-> \E i \in 1..retries : resps[i] = "200", requests |-> retries]

\* check_server(url, retries, delay) under the responses resps[1..retries]
check_server(retries, resps) == check_server_from(1, retries, resps)

(* ---------------------------- asset upload ---------------------------- *)
\* what POST /upload/image can give: 200, another status, or an exception
\* of requests (connection refused, ...)
UploadResponses == {"200", "500", "exc"}

RECURSIVE upload_images_loop(_, _, _, _, _, _)
\* the for loop of upload_images from item i on.  base64.b64decode and
\* requests.post are called outside any try: what they raise leaves the
\* function.  calls lists the requests issued.
upload_images_loop(images, resps, i, responses, upload_errors, calls) ==
  IF i > Len(images)
  THEN [raised |-> None,
        value |-> IF upload_errors # <<>>
                  THEN [status |-> "error", message |-> Str(<<"Some images failed to upload">>),
                        details |-> upload_errors]
                  ELSE [status |-> "success", message |-> Str(<<"All images uploaded successfully">>),
                        details |-> responses],
        calls |-> calls]
  ELSE IF images[i].image = "b64bad"
  THEN [raised |-> [t |-> "binascii.Error", v |-> images[i].name], value |-> None, calls |-> calls]
  ELSE LET sent == Append(calls, Call("POST /upload/image", <<images[i].name>>, resps[i]))
       IN IF resps[i] = "exc"
          THEN [raised |-> [t |-> "ConnectionError", v |-> images[i].name], value |-> None, calls |-> sent]
          ELSE IF resps[i] # "200"
          THEN upload_images_loop(images, resps, i + 1, responses,
                                  Append(upload_errors, <<"Error uploading", images[i].name>>), sent)
          ELSE upload_images_loop(images, resps, i + 1,
                                  Append(responses, <<"Successfully uploaded", images[i].name>>),
                                  upload_errors, sent)

\* upload_images(images) under the responses resps[i] to the i-th item
upload_images(images, resps) ==
  IF images = <<>>
  THEN [raised |-> None,
        value |-> [status |-> "success", message |-> Str(<<"No images to upload">>), details |-> <<>>],
        calls |-> <<>>]
  ELSE upload_images_loop(images, resps, 1, <<>>, <<>>, <<>>)

\* what one remote file can meet: the fetch and the POST succeed with 200,
\* the POST answers another status, the fetch or the POST raises a
\* requests.RequestException, or FileFromURLWrapper raises its
\* FileNotSupportedError (no content-length), which is no RequestException
FileResponses == {"200", "500", "fetch_exc", "post_exc", "unsupported"}

RECURSIVE upload_files_loop(_, _, _, _, _, _)
\* the for loop of upload_files_from_url from item i on
upload_files_loop(file_urls, resps, i, responses, upload_errors, calls) ==
  IF i > Len(file_urls)
  THEN [raised |-> None,
        value |-> IF upload_errors # <<>>
                  THEN [status |-> "error", message |-> Str(<<"Some files failed to upload">>),
                        details |-> upload_errors]
                  ELSE [status |-> "success", message |-> Str(<<"All files uploaded successfully">>),
                        details |-> responses],
        calls |-> calls]
  ELSE LET name == file_urls[i].name
           fetched == Append(calls, Call("GET url", <<name>>, resps[i]))
           posted == Append(fetched, Call("POST /upload/image", <<name>>, resps[i]))
       IN CASE resps[i] = "unsupported" ->
                 [raised |-> [t |-> "FileNotSupportedError", v |-> name], value |-> None, calls |-> fetched]
            [] resps[i] = "fetch_exc" ->
                 upload_files_loop(file_urls, resps, i + 1, responses,
                                   Append(upload_errors, <<"Error downloading", name>>), fetched)
            [] resps[i] = "post_exc" ->
                 upload_files_loop(file_urls, resps, i + 1, responses,
                                   Append(upload_errors, <<"Error downloading", name>>), posted)
            [] resps[i] = "500" ->
                 upload_files_loop(file_urls, resps, i + 1, responses,
                                   Append(upload_errors, <<"Error uploading", name>>), posted)
            [] OTHER ->
                 upload_files_loop(file_urls, resps, i + 1,
                                   Append(responses, <<"Successfully uploaded", name>>),
                                   upload_errors, posted)

\* upload_files_from_url(file_urls) under the responses resps[i]
upload_files_from_url(file_urls, resps) ==
  IF file_urls = <<>>
  THEN [raised |-> None,
        value |-> [status |-> "success", message |-> Str(<<"No files to upload">>), details |-> <<>>],
        calls |-> <<>>]
  ELSE upload_files_loop(file_urls, resps, 1, <<>>, <<>>, <<>>)

(* ------------------------------ submission ---------------------------- *)
PromptId == "p1"

\* what POST /prompt can give: a JSON body with prompt_id and node_errors
\* (empty or not), a JSON body without these keys, or a failure of urlopen
\* (HTTPError on a non-2xx status, URLError)
PromptResponses ==
  {[kind |-> "ok", body |-> [prompt_id |-> PromptId, node_errors |-> {}]],
   [kind |-> "node_errors", body |-> [prompt_id |-> PromptId, node_errors |-> {"node3"}]],
   [kind |-> "malformed", body |-> [error |-> "invalid prompt"]],
   [kind |-> "exc", body |-> [error |-> "urlopen"]]}

\* queue_workflow(workflow): the parsed body, or the exception of urlopen
queue_workflow(workflow, resp) ==
  IF resp.kind = "exc" THEN [raised |-> [t |-> "URLError", v |-> <<"prompt">>], value |-> None]
  ELSE [raised |-> None, value |-> resp.body]

(* --------------------------- string helpers --------------------------- *)
RECURSIVE split(_, _)
\* str.split(sep) on tokens: the pieces between the occurrences of sep
split(s, sep) ==
  IF \A k \in 1..Len(s) : s[k] # sep THEN <<s>>
  ELSE LET k == CHOOSE k \in 1..Len(s) : s[k] = sep /\ \A j \in 1..(k - 1) : s[j] # sep
       IN <<SubSeq(s, 1, k - 1)>> \o split(SubSeq(s, k + 1, Len(s)), sep)

RECURSIVE join(_, _)
\* sep.join(parts)
join(parts, sep) ==
  IF parts = <<>> THEN <<>>
  ELSE IF Len(parts) = 1 THEN parts[1]
  ELSE parts[1] \o <<sep>> \o join(Tail(parts), sep)

RECURSIVE rstrip(_, _)
\* str.rstrip(ch)
rstrip(s, ch) ==
  IF s # <<>> /\ s[Len(s)] = ch THEN rstrip(SubSeq(s, 1, Len(s) - 1), ch) ELSE s

\* os.path.join(root, subfolder, filename); an empty subfolder adds nothing
path_join(root, subfolder, filename) ==
  IF subfolder = <<>> THEN root \o <<"/">> \o filename
  ELSE root \o <<"/">> \o subfolder \o <<"/">> \o filename

RECURSIVE json_items(_)
json_items(l) ==
  IF l = <<>> THEN <<>>
  ELSE <<"\"">> \o l[1] \o <<"\"">> \o (IF Len(l) > 1 THEN <<", ">> ELSE <<>>) \o json_items(Tail(l))

\* json.dumps of a list of strings
json_dumps(l) == <<"[">> \o json_items(l) \o <<"]">>

\* base64_encode(img_path): the base64 text of the file's bytes
base64_encode(path) == <<"base64(">> \o path \o <<")">>

(* --------------------------- status record ---------------------------- *)
\* descriptors the engine reports
Png(sub, stem) == [t |-> "dict", v |-> [filename |-> <<stem, ".", "png">>, subfolder |-> sub, type |-> "output"]]
Temp(stem) == [t |-> "dict", v |-> [filename |-> <<stem, ".", "png">>, subfolder |-> <<>>, type |-> "temp"]]
NoName == [t |-> "dict", v |-> [subfolder |-> <<>>, type |-> "output"]]
Text == [t |-> "str", v |-> <<"a prompt">>]

\* outputs payloads: node -> slot -> a descriptor or a list of descriptors,
\* as sequences in the order the mappings are iterated
OutputsPayloads ==
  {<<[node |-> "9", slots |-> <<[slot |-> "images", value |-> List(<<Png(<<>>, "a")>>)]>>]>>,
   <<[node |-> "9", slots |-> <<[slot |-> "images", value |-> List(<<Temp("t"), Png(<<>>, "a")>>)],
                                [slot |-> "text", value |-> List(<<Text>>)]>>],
     [node |-> "12", slots |-> <<[slot |-> "gif", value |-> Png(<<"sub">>, "a")]>>]>>,
   <<[node |-> "9", slots |-> <<[slot |-> "images", value |-> List(<<Temp("t"), NoName>>)],
                                [slot |-> "gif", value |-> Temp("u")]>>]>>}

\* the mapping GET /history/{prompt_id} returns, as the record it holds for
\* the prompt: none, one with status "error", one with non-empty outputs,
\* one with neither
Absent == [present |-> FALSE]
Pending == [present |-> TRUE, status |-> "running", outputs |-> <<>>, output |-> "-"]
Failed == [present |-> TRUE, status |-> "error", outputs |-> <<>>, output |-> "diagnostic"]
Finished(o) == [present |-> TRUE, status |-> "success", outputs |-> o, output |-> "-"]
\* a record with status "error" that holds outputs as well
FailedWithOutputs(o) == [present |-> TRUE, status |-> "error", outputs |-> o, output |-> "diagnostic"]

(* ------------------------- output collection -------------------------- *)
\* default of COMFY_OUTPUT_PATH
COMFY_OUTPUT_PATH == <<"/", "comfyui", "/", "output">>

\* is_an_output_file with the test of the type left out
is_an_output_file_no_type_test(output) ==
  IF output.t = "dict" THEN "filename" \in DOMAIN output.v ELSE FALSE

\* is_an_output_file(output)
is_an_output_file(output) ==
  IF output.t = "dict"
  THEN "filename" \in DOMAIN output.v /\ "type" \in DOMAIN output.v /\ output.v.type = "output"
  ELSE FALSE

RECURSIVE keep_output_files(_)
\* [output_item for output_item in output if is_an_output_file(output_item)]
keep_output_files(items) ==
  IF items = <<>> THEN <<>>
  ELSE (IF is_an_output_file(items[1]) THEN <<items[1].v>> ELSE <<>>) \o keep_output_files(Tail(items))

RECURSIVE slot_output_files(_)
\* the inner loop over node_output.items()
slot_output_files(slots) ==
  IF slots = <<>> THEN <<>>
  ELSE LET output == slots[1].value
       IN (IF output.t = "list" THEN keep_output_files(output.v)
           ELSE IF output.t = "dict" /\ is_an_output_file(output) THEN <<output.v>>
           ELSE <<>>)
          \o slot_output_files(Tail(slots))

RECURSIVE collect_output_files(_)
\* the outer loop over outputs.items()
collect_output_files(outputs) ==
  IF outputs = <<>> THEN <<>>
  ELSE slot_output_files(outputs[1].slots) \o collect_output_files(Tail(outputs))

\* ".".join(items.split(".")[:-1]) + ".txt"
txt_path(items) ==
  LET parts == split(items, ".")
  IN join(SubSeq(parts, 1, Len(parts) - 1), ".") \o <<".", "txt">>

\* the image paths of the outputs payload, in order
image_paths(outputs) ==
  LET output_files == collect_output_files(outputs)
  IN [i \in 1..Len(output_files) |->
        path_join(COMFY_OUTPUT_PATH, output_files[i].subfolder, output_files[i].filename)]

RECURSIVE text_paths(_, _)
\* the sidecars of paths that exist, in the order of the paths
text_paths(paths, exists) ==
  IF paths = <<>> THEN <<>>
  ELSE (IF txt_path(paths[1]) \in exists THEN <<txt_path(paths[1])>> ELSE <<>>)
       \o text_paths(Tail(paths), exists)

\* resolve_output_paths with the sidecars put before the image paths
resolve_output_paths_sidecars_first(outputs, exists) ==
  text_paths(image_paths(outputs), exists) \o image_paths(outputs)

\* output_paths once the sidecars are appended
resolve_output_paths(outputs, exists) ==
  image_paths(outputs) \o text_paths(image_paths(outputs), exists)

\* path_exists keeping every path
path_exists_keep_all(paths, exists) == paths

RECURSIVE path_exists(_, _)
\* check_file_path_exist(paths)[1]: the paths that exist, in order
path_exists(paths, exists) ==
  IF paths = <<>> THEN <<>>
  ELSE (IF paths[1] \in exists THEN <<paths[1]>> ELSE <<>>) \o path_exists(Tail(paths), exists)

\* check_file_path_exist(paths)
check_file_path_exist(paths, exists) ==
  [is_all_exist |-> \A i \in 1..Len(paths) : paths[i] \in exists,
   path_exists |-> path_exists(paths, exists)]

(* ----------------------------- publishing ----------------------------- *)
RECURSIVE upload_files_to_s3_loop(_, _, _, _, _, _, _, _)
\* the for loop of upload_files_to_s3 from file i on; client.upload_file
\* fails on the fail_at-th file (on none if fail_at = 0) and the exception is
\* raised again
upload_files_to_s3_loop(job_id, file_list, bucket_name, endpoint_url, fail_at, i, bucket_urls, calls) ==
  IF i > Len(file_list) THEN [raised |-> None, value |-> bucket_urls, calls |-> calls]
  ELSE LET file_name == split(file_list[i], "/")[Len(split(file_list[i], "/"))]
           object_key == <<job_id.v, "/">> \o file_name
       IN IF i = fail_at
          THEN [raised |-> [t |-> "ClientError", v |-> object_key], value |-> None,
                calls |-> Append(calls, Call("s3 upload_file", object_key, "exc"))]
          ELSE upload_files_to_s3_loop(job_id, file_list, bucket_name, endpoint_url, fail_at, i + 1,
                 Append(bucket_urls, endpoint_url \o <<"/", bucket_name, "/">> \o object_key),
                 Append(calls, Call("s3 upload_file", object_key, "ok")))

\* upload_files_to_s3(job_id, file_list, bucket_name, endpoint_url, ...)
upload_files_to_s3(job_id, file_list, bucket_name, endpoint_url, fail_at) ==
  upload_files_to_s3_loop(job_id, file_list, bucket_name, rstrip(endpoint_url, "/"), fail_at, 1, <<>>, <<>>)

RECURSIVE embed_loop(_, _, _, _, _, _, _)
\* the for loop of the else branch of process_output_images from path i on;
\* rp_upload.upload_image is called outside any try
embed_loop(job_id, output_paths, exists, e, fail_at, i, acc) ==
  IF i > Len(output_paths)
  THEN [raised |-> None, value |-> [status |-> "success", message |-> List(acc.images)], calls |-> acc.calls]
  ELSE IF output_paths[i] \in exists
  THEN IF e.bucket_endpoint
       THEN IF i = fail_at
            THEN [raised |-> [t |-> "ClientError", v |-> output_paths[i]], value |-> None,
                  calls |-> Append(acc.calls, Call("rp_upload.upload_image", output_paths[i], "exc"))]
            ELSE embed_loop(job_id, output_paths, exists, e, fail_at, i + 1,
                   [images |-> Append(acc.images, <<"presigned(", job_id.v, ":">> \o output_paths[i] \o <<")">>),
                    calls |-> Append(acc.calls, Call("rp_upload.upload_image", output_paths[i], "ok"))])
       ELSE embed_loop(job_id, output_paths, exists, e, fail_at, i + 1,
              [images |-> Append(acc.images, base64_encode(output_paths[i])), calls |-> acc.calls])
  ELSE [raised |-> None,
        value |-> [status |-> "error",
                   message |-> Str(<<"the image does not exist in the specified output folder: ">>
                                   \o output_paths[i])],
        calls |-> acc.calls]

\* credentials_missing asking for both to be absent
credentials_missing_both(e) == ~e.aws_id /\ ~e.aws_secret

\* (aws_access_key_id is None) or (aws_secret_key is None), for the variables
\* named by the job's key prefix
credentials_missing(e) == ~e.aws_id \/ ~e.aws_secret

\* process_output_images(outputs, job_id, job_output_def) with the sidecars
\* fs_txt present when they are probed, the paths fs_pub present when the
\* files are published, and the fail_at-th upload failing (0: none)
process_output_images(outputs, job_id, job_output_def, e, fs_txt, fs_pub, fail_at) ==
  LET output_paths == resolve_output_paths(outputs, fs_txt)
  IN IF Len(output_paths) = 0
     THEN [raised |-> None, value |-> [status |-> "error", message |-> Str(<<"No image generated">>)],
           calls |-> <<>>]
     ELSE IF job_output_def # None /\ job_output_def.type = "s3"
     THEN LET checked == check_file_path_exist(output_paths, fs_pub)
          IN IF credentials_missing(e)
             THEN [raised |-> None,
                   value |-> [status |-> "error", message |-> Str(<<"AWS credentials are missing">>)],
                   calls |-> <<>>]
             ELSE LET up == upload_files_to_s3(job_id, checked.path_exists, job_output_def.bucket,
                                               job_output_def.endpoint_url, fail_at)
                  IN IF up.raised # None
                     THEN [raised |-> None,
                           value |-> [status |-> "error",
                                      message |-> Str(<<"Error uploading files to s3: ">> \o up.raised.v)],
                           calls |-> up.calls]
                     ELSE [raised |-> None, value |-> [status |-> "success", message |-> List(up.value)],
                           calls |-> up.calls]
     ELSE embed_loop(job_id, output_paths, fs_pub, e, fail_at, 1, [images |-> <<>>, calls |-> <<>>])

(* ------------------------------- trigger ------------------------------ *)
\* what the update of the Supabase table can meet
HandleResponses == {"ok", "exc"}

\* SupabaseTriggerHandler.handle(output): one update of the row trigger.id,
\* setting output_field to output (and status_field to status when both are
\* given); an exception of the update is raised again
handle(trigger, output, resp) ==
  LET data == IF trigger.status_field # None /\ trigger.status # None
              THEN {<<trigger.output_field, output>>, <<trigger.status_field.v, <<trigger.status.v>>>>}
              ELSE {<<trigger.output_field, output>>}
      call == Call("supabase update", output, resp)
  IN IF resp = "exc"
     THEN [raised |-> [t |-> "APIError", v |-> <<"update">>], value |-> None, calls |-> <<call>>, data |-> data]
     ELSE [raised |-> None, value |-> <<"response json">>, calls |-> <<call>>, data |-> data]

(* ---------------------------- status poll ----------------------------- *)
\* what GET /history/{prompt_id} can give; an exception of urlopen is "exc"
HistoryResponses ==
  {Absent, Pending, Failed} \cup {Finished(o) : o \in OutputsPayloads}
  \cup {FailedWithOutputs(o) : o \in {CHOOSE x \in OutputsPayloads : TRUE}}

\* the kind of a status response, as recorded in io
history_kind(h) ==
  IF ~h.present THEN "absent"
  ELSE IF h.status = "error" THEN "error"
  ELSE IF h.outputs # <<>> THEN "outputs"
  ELSE "pending"

\* the loop condition `retries < COMFY_POLLING_MAX_RETRIES`: int < str
\* raises TypeError
poll_condition(retries, max) ==
  IF max.t # "int" THEN "TypeError"
  ELSE IF retries < max.v THEN "loop"
  ELSE "else"

\* poll_body with the test of the error status left out
poll_body_no_error_test(h, retries) ==
  IF h.present
  THEN IF h.outputs # <<>> THEN [do |-> "break", retries |-> retries]
       ELSE [do |-> "continue", retries |-> retries]
  ELSE [do |-> "continue", retries |-> retries + 1]

\* poll_body counting a record with neither error nor outputs as a retry
poll_body_counts_pending(h, retries) ==
  IF h.present
  THEN IF h.status = "error" THEN [do |-> "return", retries |-> retries]
       ELSE IF h.outputs # <<>> THEN [do |-> "break", retries |-> retries]
       ELSE [do |-> "continue", retries |-> retries + 1]
  ELSE [do |-> "continue", retries |-> retries + 1]

\* the body of the while loop for the fetched history h: what it does next
\* and the new value of retries
poll_body(h, retries) ==
  IF h.present
  THEN IF h.status = "error" THEN [do |-> "return", retries |-> retries]
       ELSE IF h.outputs # <<>> THEN [do |-> "break", retries |-> retries]
       ELSE [do |-> "continue", retries |-> retries]
  ELSE [do |-> "continue", retries |-> retries + 1]

VARIABLES
  payload,            \* the raw job handed to handler
  env,                \* the process environment
  pc,                 \* handler's position
  job,                \* the ComfyWorkerJob, None before validation
  trigger_handler,    \* None or the SupabaseTriggerHandler
  server_up,          \* what check_server returned, None before
  upload_result,      \* what upload_images returned, None before
  upload_file_result, \* what upload_files_from_url returned, None before
  prompt_id,          \* the submission identifier, None before
  retries,            \* the poll counter
  pending,            \* status fetches that found a record with neither error nor outputs
  history,            \* the last status record fetched, None before
  images_result,      \* what process_output_images returned, None before
  io,                 \* the external calls made so far, in order
  result,             \* the value handler returned, None while running
  exc,                \* the exception that left handler, None if none
  parked              \* the local state of another invocation of handler, None if there is none

vars == <<payload, env, pc, job, trigger_handler, server_up, upload_result, upload_file_result,
          prompt_id, retries, pending, history, images_result, io, result, exc, parked>>

\* handler is entered: nothing is bound yet
Entered ==
  /\ pc = "validate"
  /\ job = None
  /\ trigger_handler = None
  /\ server_up = None
  /\ upload_result = None
  /\ upload_file_result = None
  /\ prompt_id = None
  /\ retries = 0
  /\ pending = 0
  /\ history = None
  /\ images_result = None
  /\ io = <<>>
  /\ result = None
  /\ exc = None

Init ==
  /\ \E j \in Jobs : payload = j.payload /\ env = j.env
  /\ Entered
  /\ parked = None

\* `return value` of handler
Return(value) == result' = value /\ pc' = "done" /\ exc' = exc

\* an exception leaves handler
Raise(e) == exc' = e /\ pc' = "raised" /\ result' = result

\* handler goes on at position p
Goto(p) == pc' = p /\ result' = result /\ exc' = exc

\* the missing fields of a ValidationError, as str(e) lists them
error_fields(errors) == SelectSeq(<<"id", "workflow", "trigger">>, LAMBDA f : f \in errors)

\* job = ComfyWorkerJob(id=job["id"], **job["input"]); only ValidationError is caught
Validate ==
  /\ pc = "validate"
  /\ IF payload.id = None
     THEN Raise([t |-> "KeyError", v |-> <<"id">>]) /\ job' = job
     ELSE LET v == ComfyWorkerJob([id |-> payload.id] @@ payload.input)
          IN IF v.ok
             THEN job' = v.job /\ Goto("create_trigger")
             ELSE job' = job /\ Return([error |-> <<"Error validating input: ">> \o error_fields(v.errors)])
  /\ UNCHANGED <<parked, payload, env, trigger_handler, server_up, upload_result, upload_file_result,
                 prompt_id, retries, pending, history, images_result, io>>

\* if job.trigger: trigger_handler = create_trigger_handler(job.trigger)
CreateTrigger ==
  /\ pc = "create_trigger"
  /\ IF job.trigger # None
     THEN LET r == create_trigger_handler(job.trigger, env)
          IN IF r.raised # None
             THEN trigger_handler' = trigger_handler
                  /\ Return([error |-> <<"Error creating trigger handler: ", r.raised.v>>])
             ELSE trigger_handler' = r.value /\ Goto("check_server")
     ELSE trigger_handler' = trigger_handler /\ Goto("check_server")
  /\ UNCHANGED <<parked, payload, env, job, server_up, upload_result, upload_file_result,
                 prompt_id, retries, pending, history, images_result, io>>

\* check_server(...): its value is not looked at
CheckServer ==
  /\ pc = "check_server"
  /\ \E resps \in [1..ApiMaxRetries -> ProbeResponses] :
       LET r == check_server(ApiMaxRetries, resps)
       IN /\ server_up' = [t |-> "bool", v |-> r.value]
          /\ io' = io \o [i \in 1..r.requests |-> Call("GET /", <<>>, IF resps[i] = "200" THEN "200" ELSE "no")]
  /\ Goto("upload_images")
  /\ UNCHANGED <<parked, payload, env, job, trigger_handler, upload_result, upload_file_result,
                 prompt_id, retries, pending, history, images_result>>

\* upload_failed with the test of the status left out
upload_failed_never(r) == FALSE

\* if upload_result["status"] == "error": return upload_result
upload_failed(r) == r.status = "error"

\* upload_result = upload_images(job.images); an error result is returned
UploadImages ==
  /\ pc = "upload_images"
  /\ \E resps \in [1..Len(job.images) -> UploadResponses] :
       LET r == upload_images(job.images, resps)
       IN /\ io' = io \o r.calls
          /\ IF r.raised # None THEN upload_result' = upload_result /\ Raise(r.raised)
             ELSE /\ upload_result' = r.value
                  /\ IF upload_failed(r.value) THEN Return(r.value) ELSE Goto("upload_files")
  /\ UNCHANGED <<parked, payload, env, job, trigger_handler, server_up, upload_file_result,
                 prompt_id, retries, pending, history, images_result>>

\* upload_file_result = upload_files_from_url(job.file_urls); an error result is returned
UploadFiles ==
  /\ pc = "upload_files"
  /\ \E resps \in [1..Len(job.file_urls) -> FileResponses] :
       LET r == upload_files_from_url(job.file_urls, resps)
       IN /\ io' = io \o r.calls
          /\ IF r.raised # None THEN upload_file_result' = upload_file_result /\ Raise(r.raised)
             ELSE /\ upload_file_result' = r.value
                  /\ IF upload_failed(r.value) THEN Return(r.value) ELSE Goto("queue")
  /\ UNCHANGED <<parked, payload, env, job, trigger_handler, server_up, upload_result,
                 prompt_id, retries, pending, history, images_result>>

\* queue_outcome with the test of node_errors left out
queue_outcome_no_node_errors_test(q) ==
  IF q.raised # None THEN "exc"
  ELSE IF ~({"prompt_id", "node_errors"} \subseteq DOMAIN q.value) THEN "KeyError"
  ELSE "queued"

\* what the try block around queue_workflow makes of its outcome q: an
\* exception of the call, a KeyError on a missing key, node errors, or none
queue_outcome(q) ==
  IF q.raised # None THEN "exc"
  ELSE IF ~({"prompt_id", "node_errors"} \subseteq DOMAIN q.value) THEN "KeyError"
  ELSE IF q.value.node_errors # {} THEN "node_errors"
  ELSE "queued"

\* the try block around queue_workflow: every exception becomes an error result
QueueWorkflow ==
  /\ pc = "queue"
  /\ \E resp \in PromptResponses :
       LET q == queue_workflow(job.workflow, resp)
       IN /\ io' = Append(io, Call("POST /prompt", <<>>, resp.kind))
          /\ CASE queue_outcome(q) = "exc" ->
                    prompt_id' = prompt_id /\ Return([error |-> <<"Error queuing workflow: ">> \o q.raised.v])
               [] queue_outcome(q) = "KeyError" ->
                    prompt_id' = prompt_id /\ Return([error |-> <<"Error queuing workflow: ", "KeyError">>])
               [] queue_outcome(q) = "node_errors" ->
                    prompt_id' = Str(q.value.prompt_id)
                    /\ Return([error |-> <<"Error found when queuing workflow: ", "node_errors">>])
               [] OTHER -> prompt_id' = Str(q.value.prompt_id) /\ Goto("poll")
  /\ retries' = 0
  /\ UNCHANGED <<parked, payload, env, job, trigger_handler, server_up, upload_result, upload_file_result,
                 pending, history, images_result>>

\* one evaluation of the while condition and, when it holds, one pass of the
\* loop body: history = get_history(prompt_id) and the branch on it
Poll ==
  /\ pc = "poll"
  /\ LET c == poll_condition(retries, COMFY_POLLING_MAX_RETRIES(env))
     IN CASE c = "TypeError" ->
               /\ Return([error |-> <<"Error waiting for image generation: ", "TypeError">>])
               /\ UNCHANGED <<retries, pending, history, io>>
          [] c = "else" ->
               /\ Return([error |-> <<"Max retries reached while waiting for image generation">>])
               /\ UNCHANGED <<retries, pending, history, io>>
          [] OTHER ->
               \/ /\ io' = Append(io, Call("GET /history", <<prompt_id.v>>, "exc"))
                  /\ Return([error |-> <<"Error waiting for image generation: ", "URLError">>])
                  /\ UNCHANGED <<retries, pending, history>>
               \/ \E h \in HistoryResponses :
                    LET b == poll_body(h, retries)
                    IN /\ history_kind(h) = "pending" => pending < MaxPending
                       /\ io' = Append(io, Call("GET /history", <<prompt_id.v>>, "json"))
                       /\ history' = h
                       /\ retries' = b.retries
                       /\ pending' = IF history_kind(h) = "pending" THEN pending + 1 ELSE pending
                       /\ CASE b.do = "return" ->
                                 Return([error |-> <<"Error in generation: ", h.output>>])
                            [] b.do = "break" -> Goto("process_output")
                            [] OTHER -> Goto("poll")
  /\ UNCHANGED <<parked, payload, env, job, trigger_handler, server_up, upload_result, upload_file_result,
                 prompt_id, images_result>>

\* the sidecar paths the collection may probe
txt_candidates(outputs) == {txt_path(image_paths(outputs)[i]) : i \in 1..Len(image_paths(outputs))}

\* handler_result with the flag fixed to False
handler_result_no_refresh(r, e) == r @@ [refresh_worker |-> FALSE]

\* result = {**images_result, "refresh_worker": REFRESH_WORKER}
handler_result(r, e) == r @@ [refresh_worker |-> REFRESH_WORKER(e)]

\* whether publishing uploads the files it finds: to the job's bucket, or by
\* the helper of the runtime when BUCKET_ENDPOINT_URL is set
uploads_outputs(job_output_def, e) ==
  IF job_output_def # None /\ job_output_def.type = "s3" THEN e.aws_id /\ e.aws_secret
  ELSE e.bucket_endpoint

\* images_result = process_output_images(...); result = {**images_result,
\* "refresh_worker": REFRESH_WORKER}; without a trigger handler result is returned
ProcessOutput ==
  /\ pc = "process_output"
  /\ \E fs_txt \in SUBSET txt_candidates(history.outputs) :
       LET paths == resolve_output_paths(history.outputs, fs_txt)
       IN \E fs_pub \in SUBSET {paths[i] : i \in 1..Len(paths)} :
          \E fail_at \in 0..(IF uploads_outputs(job.output, env) THEN Cardinality(fs_pub) ELSE 0) :
            LET r == process_output_images(history.outputs, job.id, job.output, env, fs_txt, fs_pub, fail_at)
            IN /\ io' = io \o r.calls
               /\ IF r.raised # None THEN images_result' = images_result /\ Raise(r.raised)
                  ELSE /\ images_result' = r.value
                       /\ IF trigger_handler # None THEN Goto("trigger")
                          ELSE Return(handler_result(r.value, env))
  /\ UNCHANGED <<parked, payload, env, job, trigger_handler, server_up, upload_result, upload_file_result,
                 prompt_id, retries, pending, history>>

\* images_is_list with the assert compiled away (python -O)
images_is_list_no_assert(images) == TRUE

\* assert isinstance(images, list)
images_is_list(images) == images.t = "list"

\* if trigger_handler: the assert on images_result["message"], json.dumps,
\* trigger_handler.handle(output); then return result
Trigger ==
  /\ pc = "trigger"
  /\ LET images == images_result.message
         \* json.dumps(images): of a list of strings, or of one string
         output == IF images.t = "list" THEN json_dumps(images.v) ELSE <<"\"">> \o images.v \o <<"\"">>
     IN IF ~images_is_list(images)
        THEN Raise([t |-> "AssertionError", v |-> <<"images output should be a list">>]) /\ io' = io
        ELSE \E resp \in HandleResponses :
               LET r == handle(trigger_handler.trigger, output, resp)
               IN /\ io' = io \o r.calls
                  /\ IF r.raised # None THEN Raise(r.raised)
                     ELSE Return(handler_result(images_result, env))
  /\ UNCHANGED <<parked, payload, env, job, trigger_handler, server_up, upload_result, upload_file_result,
                 prompt_id, retries, pending, history, images_result>>

Next ==
  \/ Validate
  \/ CreateTrigger
  \/ CheckServer
  \/ UploadImages
  \/ UploadFiles
  \/ QueueWorkflow
  \/ Poll
  \/ ProcessOutput
  \/ Trigger

Spec == Init /\ [][Next]_vars

(* ------------------------ concurrent invocations ---------------------- *)
\* the local variables of one invocation of handler, with the calls it made
handler_locals ==
  [payload |-> payload, pc |-> pc, job |-> job, trigger_handler |-> trigger_handler,
   server_up |-> server_up, upload_result |-> upload_result, upload_file_result |-> upload_file_result,
   prompt_id |-> prompt_id, retries |-> retries, pending |-> pending, history |-> history,
   images_result |-> images_result, io |-> io, result |-> result, exc |-> exc]

\* the local variables of an invocation that has not started on payload p
started_on(p) ==
  [payload |-> p, pc |-> "validate", job |-> None, trigger_handler |-> None,
   server_up |-> None, upload_result |-> None, upload_file_result |-> None,
   prompt_id |-> None, retries |-> 0, pending |-> 0, history |-> None,
   images_result |-> None, io |-> <<>>, result |-> None, exc |-> None]

\* resumed with retries a module-level name that the invocations share
resumed_sharing_retries(r) == [r EXCEPT !.retries = retries]

\* the local variables an invocation finds when it runs again: those it left
resumed(r) == r

\* the host runs the other invocation: the running one is parked with its
\* local variables and the parked one goes on with its own
Switch ==
  /\ parked # None
  /\ parked' = handler_locals
  /\ LET r == resumed(parked)
     IN /\ payload' = r.payload /\ pc' = r.pc /\ job' = r.job /\ trigger_handler' = r.trigger_handler
        /\ server_up' = r.server_up /\ upload_result' = r.upload_result
        /\ upload_file_result' = r.upload_file_result /\ prompt_id' = r.prompt_id
        /\ retries' = r.retries /\ pending' = r.pending /\ history' = r.history
        /\ images_result' = r.images_result /\ io' = r.io /\ result' = r.result /\ exc' = r.exc
  /\ env' = env

\* the second job the host hands to handler
JobId2 == Str("job2")

\* two invocations of handler in one process, on two jobs that hold a
\* workflow only: one runs, the other has not started
InitPar ==
  /\ payload = [id |-> JobId, input |-> Input(<<>>, 0, None, None)]
  /\ env = Env(FALSE, FALSE, FALSE, FALSE, FALSE, FALSE, FALSE)
  /\ Entered
  /\ parked = started_on([id |-> JobId2, input |-> Input(<<>>, 0, None, None)])

\* a step of the running invocation, or a switch to the other one; the jobs
\* declare no trigger, so the trigger branch of handler is never entered
NextPar ==
  \/ Validate
  \/ CreateTrigger
  \/ CheckServer
  \/ UploadImages
  \/ UploadFiles
  \/ QueueWorkflow
  \/ Poll
  \/ ProcessOutput
  \/ Switch

SpecPar == InitPar /\ [][NextPar]_vars

(* ------------------------------- claims ------------------------------- *)
\* the positions in io of the calls of operation op
CallsOf(op) == {i \in 1..Len(io) : io[i].op = op}

\* the status fetches issued so far
Fetches == Cardinality(CallsOf("GET /history"))

\* handler returned one of its top-level {error: ...} values
ReturnedError == pc = "done" /\ DOMAIN result = {"error"}

\* the completion poll was entered and is over
PollOver == prompt_id # None /\ pc \notin {"queue", "poll"} /\ \E i \in CallsOf("POST /prompt") : io[i].resp = "ok"

\* C1: whatever the payload and the external responses, handler returns a
\* value and lets no exception escape, except an exception of the trigger's
\* handle raised after a success result was computed.
C1_NoStageErrorEscapes ==
  pc = "raised" =>
    /\ exc.t = "APIError"
    /\ images_result # None
    /\ images_result.status = "success"

\* C2: when the record is absent on the first N probes and the next probe
\* reports outputs, the poll ends in success after exactly N + 1 fetches,
\* N below the configured maximum; when the record is absent on every probe,
\* the poll ends in the timeout error after exactly the configured maximum
\* number of fetches.
C2_PollProbeCount ==
  /\ (PollOver /\ pending = 0 /\ history # None /\ history.present /\ history.status # "error")
       => (Fetches = retries + 1 /\ retries < PollMaxRetries)
  /\ (PollOver /\ Fetches = retries /\ io[Len(io)].resp # "exc")
       => /\ ReturnedError
          /\ result.error = <<"Max retries reached while waiting for image generation">>
          /\ Fetches = PollMaxRetries

\* C3: whatever status records the engine answers with (absent, present
\* with neither error nor outputs, with error, with outputs), the poll
\* fetches the status record at most the configured maximum number of times.
C3_FetchesBounded ==
  (\A i \in CallsOf("GET /history") : io[i].resp # "exc") => Fetches <= PollMaxRetries

\* the last status record fetched reports an error status
FoundError == history # None /\ history.present /\ history.status = "error"

\* C4: once a status fetch found a record with an error status, handler has
\* returned an error and that fetch is the last external call: no further
\* fetch, no collection, no publishing, no trigger dispatch.
C4_ErrorStatusIsTerminal ==
  FoundError =>
    /\ ReturnedError
    /\ result.error = <<"Error in generation: ", history.output>>
    /\ io[Len(io)].op = "GET /history"
    /\ images_result = None
    /\ CallsOf("s3 upload_file") \cup CallsOf("rp_upload.upload_image") \cup CallsOf("supabase update") = {}

\* C4 witness: a job with a trigger handler met an error status on a record
\* that holds outputs too, after an earlier fetch
C4_Witness == FoundError /\ trigger_handler # None /\ history.outputs # <<>> /\ Fetches > 1

\* the names a call is about, for the calls at the positions ps, in order
RECURSIVE NamesFrom(_, _)
NamesFrom(i, ps) ==
  IF i > Len(io) THEN <<>>
  ELSE (IF i \in ps THEN <<io[i].arg[1]>> ELSE <<>>) \o NamesFrom(i + 1, ps)

\* the uploads of inline images, and the fetches of remote files
ImageCalls == {i \in CallsOf("POST /upload/image") : \E k \in 1..Len(ImageNames) : io[i].arg[1] = ImageNames[k]}
FileCalls == CallsOf("GET url")

\* upload_images, and upload_files_from_url, was called and is over
ImagesUploadOver == server_up # None /\ pc # "upload_images"
FilesUploadOver ==
  upload_result # None /\ upload_result.status = "success" /\ pc # "upload_files"

\* the result r of an upload reports, for the calls at ps, status error iff
\* one of them failed, one error message per failed item, and the success
\* message of every item that succeeded
Aggregates(r, ps) ==
  LET failed == {i \in ps : io[i].resp # "200"}
      succeeded == {i \in ps : io[i].resp = "200"}
      errors == {k \in 1..Len(r.details) : r.details[k][1] \in {"Error uploading", "Error downloading"}}
  IN /\ r.status = "error" <=> failed # {}
     /\ Cardinality(errors) = Cardinality(failed)
     /\ \A i \in succeeded :
          \E k \in 1..Len(r.details) : r.details[k] = <<"Successfully uploaded", io[i].arg[1]>>

\* C5: the result of upload_images (and of upload_files_from_url) has status
\* error iff at least one item failed, carries one error message per failed
\* item and still reports the success messages of the items that succeeded.
C5_UploadAggregates ==
  /\ upload_result # None => Aggregates(upload_result, ImageCalls)
  /\ upload_file_result # None => Aggregates(upload_file_result, FileCalls)

\* C6: once an upload sub-operation is over, every item of its batch was
\* attempted exactly once, in list order, whatever happened to the items
\* before it: every image that decodes was posted, every file was fetched.
C6_EveryItemAttempted ==
  /\ ImagesUploadOver =>
       LET decodable == SelectSeq(job.images, LAMBDA image : image.image = "b64ok")
       IN NamesFrom(1, ImageCalls) = [i \in 1..Len(decodable) |-> decodable[i].name]
  /\ FilesUploadOver => NamesFrom(1, FileCalls) = [i \in 1..Len(job.file_urls) |-> job.file_urls[i].name]

\* C7: when upload_images returned an error result, handler returned that
\* result and fetched no remote file, submitted nothing and polled nothing;
\* when upload_files_from_url returned an error result, handler returned that
\* result and submitted nothing and polled nothing.
C7_UploadErrorIsFailFast ==
  /\ (upload_result # None /\ upload_result.status = "error")
       => /\ pc = "done" /\ result = upload_result
          /\ upload_file_result = None
          /\ FileCalls \cup CallsOf("POST /prompt") \cup CallsOf("GET /history") = {}
          /\ CallsOf("POST /upload/image") = ImageCalls
  /\ (upload_file_result # None /\ upload_file_result.status = "error")
       => /\ pc = "done" /\ result = upload_file_result
          /\ CallsOf("POST /prompt") \cup CallsOf("GET /history") = {}

\* C7 witness: upload_images returned an error for a job with a trigger
\* handler and a remote file, which was never fetched
C7_Witness ==
  /\ upload_result # None /\ upload_result.status = "error"
  /\ payload.input.file_urls # <<>>
  /\ trigger_handler # None
  /\ pc = "done"

\* C8: a submission that answered with node errors, or failed, or answered
\* without the keys, is the last external call and handler returned an
\* error; every status fetch comes after a submission that answered with an
\* identifier and no node errors.
C8_NoPollAfterFailedSubmission ==
  /\ \A i \in CallsOf("POST /prompt") :
       io[i].resp # "ok" => (i = Len(io) /\ ReturnedError /\ history = None)
  /\ \A i \in CallsOf("GET /history") :
       \E j \in CallsOf("POST /prompt") : j < i /\ io[j].resp = "ok"

\* C8 witness: the submission answered with an identifier and node errors
C8_Witness ==
  /\ \E i \in CallsOf("POST /prompt") : io[i].resp = "node_errors"
  /\ prompt_id # None
  /\ pc = "done"

\* the job declares a trigger that cannot be set up: an unknown service tag
\* or a credential missing from the environment
TriggerUnusable ==
  /\ payload.input.trigger # None
  /\ \/ payload.input.trigger.service # "supabase"
     \/ ~env.supabase_url
     \/ ~env.supabase_key

\* C9: a job whose trigger cannot be set up ends with an error before any
\* network I/O: handler never gets past the construction of the trigger
\* handler and makes no external call.
C9_TriggerFailsBeforeIO ==
  TriggerUnusable =>
    /\ io = <<>>
    /\ server_up = None
    /\ pc \in {"validate", "create_trigger"} \/ ReturnedError \/ (pc = "raised" /\ job = None)

\* C9 witness: SUPABASE_URL is set, SUPABASE_KEY is not, and handler returned
C9_Witness ==
  /\ payload.input.trigger = SupabaseTrigger
  /\ env.supabase_url /\ ~env.supabase_key
  /\ payload.input.images # <<>>
  /\ ReturnedError

\* publishing succeeded for a job with a trigger handler
PublishedWithTrigger ==
  trigger_handler # None /\ images_result # None /\ images_result.status = "success"

\* C10: for a job with a trigger whose publishing succeeded, handle is not
\* called before publishing is over and is called exactly once after it,
\* as the last external call, with the JSON text of the published list; the
\* value returned is {status: success, message: the published list,
\* refresh_worker: the configured flag}, whatever handle returned.
C10_TriggerHandledOnce ==
  PublishedWithTrigger =>
    /\ pc \in {"trigger", "done", "raised"}
    /\ pc = "trigger" => CallsOf("supabase update") = {}
    /\ pc \in {"done", "raised"} =>
         /\ CallsOf("supabase update") = {Len(io)}
         /\ io[Len(io)].arg = json_dumps(images_result.message.v)
    /\ pc = "done" =>
         /\ DOMAIN result = {"status", "message", "refresh_worker"}
         /\ result.status = "success"
         /\ result.message = images_result.message
         /\ result.refresh_worker = REFRESH_WORKER(env)

\* C10 witness: two artifacts were published, REFRESH_WORKER is set, handle
\* succeeded and handler returned
C10_Witness ==
  /\ PublishedWithTrigger
  /\ Len(images_result.message.v) >= 2
  /\ REFRESH_WORKER(env)
  /\ pc = "done"


\* the two shapes of the job output schema, by their keys
OutputShapes == {{"status", "message", "refresh_worker"}, {"error"}}

\* C11: every value handler returns has the keys {status, message,
\* refresh_worker} or the single key error
C11_ReturnShapes == pc = "done" => DOMAIN result \in OutputShapes


\* the descriptors of an outputs payload, whatever node and slot hold them
Descriptors(outputs) ==
  UNION {UNION {IF outputs[n].slots[k].value.t = "list"
                THEN {outputs[n].slots[k].value.v[i] : i \in 1..Len(outputs[n].slots[k].value.v)}
                ELSE {outputs[n].slots[k].value} : k \in 1..Len(outputs[n].slots)}
         : n \in 1..Len(outputs)}

\* a descriptor of kind output that has a filename
Qualifies(d) ==
  d.t = "dict" /\ "filename" \in DOMAIN d.v /\ "type" \in DOMAIN d.v /\ d.v.type = "output"

\* the record fetched last holds outputs of which none qualifies
NothingGenerated ==
  /\ history # None /\ history.present /\ history.status # "error" /\ history.outputs # <<>>
  /\ \A d \in Descriptors(history.outputs) : ~Qualifies(d)

NoImageGenerated == [status |-> "error", message |-> Str(<<"No image generated">>)]

\* the output configurations and the storage settings of the environment a
\* job can meet
AnyOutputDefs == {None} \cup OutputDefs
AnyEnvs == {Env(TRUE, TRUE, ai, as, be, FALSE, FALSE) : ai \in BOOLEAN, as \in BOOLEAN, be \in BOOLEAN}

\* C12: when no descriptor of the outputs payload qualifies, the collection
\* gives the error "No image generated" under every output configuration,
\* environment and state of the output folder, and makes no call to storage;
\* handler gets that result and no upload or encoding has happened
C12_NothingGeneratedIsTerminal ==
  NothingGenerated =>
    /\ pc = "process_output" =>
       \A o \in AnyOutputDefs, e \in AnyEnvs, fail_at \in 0..1,
            fs \in SUBSET {COMFY_OUTPUT_PATH \o <<"/", "a", ".", "png">>, COMFY_OUTPUT_PATH \o <<"/", "t", ".", "png">>,
                           COMFY_OUTPUT_PATH \o <<"/", "t", ".", "txt">>} :
           process_output_images(history.outputs, JobId, o, e, fs, fs, fail_at)
             = [raised |-> None, value |-> NoImageGenerated, calls |-> <<>>]
    /\ pc # "process_output" => images_result = NoImageGenerated
    /\ CallsOf("s3 upload_file") = {} /\ CallsOf("rp_upload.upload_image") = {}

\* the collection found nothing for a job that publishes to its bucket and
\* has the credentials
C12_Witness ==
  /\ NothingGenerated /\ images_result = NoImageGenerated
  /\ job.output # None /\ job.output.type = "s3" /\ env.aws_id /\ env.aws_secret


\* the places of an outputs payload that hold a descriptor: node n, slot k
\* and position i in the slot's list (1 when the slot holds one descriptor)
Positions(outputs) ==
  UNION {UNION {{<<n, k, i>> : i \in 1..(IF outputs[n].slots[k].value.t = "list"
                                         THEN Len(outputs[n].slots[k].value.v) ELSE 1)}
                : k \in 1..Len(outputs[n].slots)}
         : n \in 1..Len(outputs)}

DescriptorAt(outputs, t) ==
  LET value == outputs[t[1]].slots[t[2]].value
  IN IF value.t = "list" THEN value.v[t[3]] ELSE value

QualifyingPositions(outputs) == {t \in Positions(outputs) : Qualifies(DescriptorAt(outputs, t))}

\* node, then slot, then position
Before(s, t) ==
  \/ s[1] < t[1]
  \/ s[1] = t[1] /\ s[2] < t[2]
  \/ s[1] = t[1] /\ s[2] = t[2] /\ s[3] < t[3]

\* the qualifying descriptors in flattening order
InFlatteningOrder(outputs) ==
  LET qs == QualifyingPositions(outputs)
  IN [r \in 1..Cardinality(qs) |->
        DescriptorAt(outputs, CHOOSE t \in qs : Cardinality({s \in qs : Before(s, t)}) = r - 1).v]

\* the path of a descriptor under the output folder, and of the .txt file of
\* the same folder and stem
PathOf(d) ==
  COMFY_OUTPUT_PATH \o <<"/">> \o (IF d.subfolder = <<>> THEN <<>> ELSE d.subfolder \o <<"/">>) \o d.filename
SidecarOf(d) ==
  COMFY_OUTPUT_PATH \o <<"/">> \o (IF d.subfolder = <<>> THEN <<>> ELSE d.subfolder \o <<"/">>)
    \o SubSeq(d.filename, 1, Len(d.filename) - 1) \o <<"txt">>

\* the path list the claim describes, when the files of exists are there
ExpectedPaths(outputs, exists) ==
  LET ds == InFlatteningOrder(outputs)
  IN [r \in 1..Len(ds) |-> PathOf(ds[r])]
     \o SelectSeq([r \in 1..Len(ds) |-> SidecarOf(ds[r])], LAMBDA p : p \in exists)

\* the string returned for one path: its URL in the job's bucket, the URL
\* the runtime's helper gives, or its encoded content
PublishedAs(o, e, job_id, path) ==
  IF o # None /\ o.type = "s3"
  THEN rstrip(o.endpoint_url, "/") \o <<"/", o.bucket, "/", job_id.v, "/">> \o split(path, "/")[Len(split(path, "/"))]
  ELSE IF e.bucket_endpoint THEN <<"presigned(", job_id.v, ":">> \o path \o <<")">>
  ELSE <<"base64(">> \o path \o <<")">>

\* the list returned for the resolved paths: in the job's bucket mode the
\* paths that exist, otherwise all of them, one string each in the same order
PublishedList(o, e, job_id, paths, exists) ==
  LET kept == IF o # None /\ o.type = "s3" THEN SelectSeq(paths, LAMBDA p : p \in exists) ELSE paths
  IN [i \in 1..Len(kept) |-> PublishedAs(o, e, job_id, kept[i])]

\* the outputs the poll ended on
Collected == pc \in {"process_output", "trigger", "done", "raised"} /\ history # None
             /\ history.present /\ history.status # "error" /\ history.outputs # <<>>

\* C13: the resolved path list is the paths of the qualifying descriptors in
\* flattening order followed by the existing sidecars in the order of their
\* paths, and a list returned by either publishing branch has one string per
\* path in the order of the resolved list
C13_ResolvedOrderKept ==
  Collected =>
    /\ pc = "process_output" =>
         \A fs_txt \in SUBSET txt_candidates(history.outputs) :
           LET paths == resolve_output_paths(history.outputs, fs_txt)
           IN /\ paths = ExpectedPaths(history.outputs, fs_txt)
              /\ \A fs_pub \in SUBSET {paths[i] : i \in 1..Len(paths)} :
                   LET r == process_output_images(history.outputs, job.id, job.output, env, fs_txt, fs_pub, 0)
                   IN r.raised = None /\ r.value.status = "success" =>
                        r.value.message = List(PublishedList(job.output, env, job.id, paths, fs_pub))
    /\ images_result # None /\ images_result.status = "success" =>
         \E fs_txt \in SUBSET txt_candidates(history.outputs) :
           LET paths == ExpectedPaths(history.outputs, fs_txt)
           IN \E fs_pub \in SUBSET {paths[i] : i \in 1..Len(paths)} :
                images_result.message = List(PublishedList(job.output, env, job.id, paths, fs_pub))

\* two images of two nodes and one sidecar were published to the job's bucket
C13_Witness ==
  /\ Collected /\ images_result # None /\ images_result.status = "success"
  /\ job.output # None /\ job.output.type = "s3"
  /\ Len(images_result.message.v) = 3


\* the job publishes to its own bucket
ObjectStorageMode == job # None /\ job.output # None /\ job.output.type = "s3"

\* publishing is over: process_output_images returned or raised
PublishingOver == Collected /\ pc # "process_output"

\* C14: in object-storage mode with one of the two credentials absent,
\* process_output_images returns a result of status error instead of raising
\* and no upload to the bucket is attempted
C14_MissingCredentialsIsAnErrorResult ==
  PublishingOver /\ ObjectStorageMode /\ (~env.aws_id \/ ~env.aws_secret) =>
    /\ images_result # None /\ images_result.status = "error"
    /\ QualifyingPositions(history.outputs) # {} =>
         images_result.message = Str(<<"AWS credentials are missing">>)
    /\ CallsOf("s3 upload_file") = {}

\* the access key is set, the secret is not, and there were files to publish
C14_Witness ==
  /\ PublishingOver /\ ObjectStorageMode /\ env.aws_id /\ ~env.aws_secret
  /\ images_result = [status |-> "error", message |-> Str(<<"AWS credentials are missing">>)]


\* both credentials of the job's key prefix are set
HasCredentials == env.aws_id /\ env.aws_secret

\* the object key of a path: the job id and the path's last component
ObjectKey(job_id, path) == <<job_id.v, "/">> \o split(path, "/")[Len(split(path, "/"))]

FailedUploads == {i \in CallsOf("s3 upload_file") : io[i].resp = "exc"}

\* C16: in object-storage mode, once the upload of a path has failed no
\* other upload follows, the failed upload is not repeated, and handler
\* returns an error result that holds no URL
C16_UploadFailureAborts ==
  ObjectStorageMode /\ FailedUploads # {} /\ pc \in {"done", "raised"} =>
    /\ Cardinality(FailedUploads) = 1
    /\ \A i \in FailedUploads : \A k \in CallsOf("s3 upload_file") : k <= i
    /\ pc = "done" /\ result.status = "error" /\ result.message.t = "str"


\* the result the else branch returns at a resolved path that is gone
PathVanished ==
  /\ Collected /\ ~ObjectStorageMode /\ images_result # None
  /\ images_result.status = "error" /\ images_result.message.t = "str"
  /\ images_result.message.v[1] = "the image does not exist in the specified output folder: "

\* C17: in embedded mode, when a resolved path is gone at publish time
\* handler returns an error result, which holds no payload of an earlier path
C17_VanishedPathIsAnErrorResult ==
  PathVanished /\ pc \in {"done", "raised"} =>
    pc = "done" /\ result.status = "error" /\ result.message = images_result.message


\* the stage an external call belongs to, in pipeline order
StageOf(op) ==
  CASE op = "GET /" -> 1
    [] op \in {"POST /upload/image", "GET url"} -> 2
    [] op = "POST /prompt" -> 3
    [] op = "GET /history" -> 4
    [] op \in {"s3 upload_file", "rp_upload.upload_image"} -> 5
    [] OTHER -> 6

\* the calls of io follow the order of the stages
InPipelineOrder == \A i \in 1..Len(io) : \A k \in 1..Len(io) : i < k => StageOf(io[i].op) <= StageOf(io[k].op)

\* handler returned a result of status success
ReturnedSuccess == pc = "done" /\ "status" \in DOMAIN result /\ result.status = "success"

\* every stage but the probe completed successfully
StagesSucceeded ==
  /\ job # None
  /\ payload.input.trigger # None => trigger_handler # None
  /\ server_up # None
  /\ upload_result # None /\ upload_result.status = "success"
  /\ upload_file_result # None /\ upload_file_result.status = "success"
  /\ prompt_id # None /\ \A i \in CallsOf("POST /prompt") : io[i].resp = "ok"
  /\ history # None /\ history.present /\ history.status # "error" /\ history.outputs # <<>>
  /\ images_result # None /\ images_result.status = "success"
  /\ InPipelineOrder

\* C18: handler returns status success only if validation, the construction
\* of a declared trigger, the probe of the engine, both uploads, the
\* submission, the poll, the collection and the publishing all succeeded, in
\* this order
C18_SuccessNeedsEveryStage ==
  ReturnedSuccess => StagesSucceeded /\ server_up.v = TRUE


\* the input holds a workflow, images, file_urls, an output definition and
\* a supabase trigger
FullInput ==
  /\ payload.input.workflow # None /\ payload.input.images # <<>> /\ payload.input.file_urls # <<>>
  /\ payload.input.output # None
  /\ payload.input.trigger # None /\ payload.input.trigger.service = "supabase"

\* ComfyWorkerJob(**job_input): the keyword arguments are the input's fields,
\* an id is not among them
JobOfInput == ComfyWorkerJob([id |-> None] @@ payload.input)

\* C19: for a payload without workflow handler returns a validation error
\* that names "workflow" and makes no call; and the Job built from an input
\* holding all five fields is valid, has the input's workflow and has
\* images, file_urls, output and trigger populated
C19_ValidationOfWorkflowAndFullInput ==
  /\ payload.input.workflow = None /\ pc # "validate" =>
       /\ pc = "done" /\ DOMAIN result = {"error"}
       /\ \E i \in 1..Len(result.error) : result.error[i] = "workflow"
       /\ io = <<>>
  /\ FullInput /\ pc # "validate" =>
       /\ JobOfInput.ok
       /\ JobOfInput.job.workflow = payload.input.workflow
       /\ JobOfInput.job.images # <<>> /\ JobOfInput.job.file_urls # <<>>
       /\ JobOfInput.job.output # None /\ JobOfInput.job.trigger # None


\* the status fetches among the calls of the invocation with locals r
FetchesOf(r) == {i \in 1..Len(r.io) : r.io[i].op = "GET /history"}

\* the poll counter, the collected paths and the result of the invocation
\* with locals r are those its own job and the responses it received give:
\* its Job is built from its payload, its counters count its own status
\* fetches, the list it publishes is the one of the outputs it fetched, and
\* the result it returns is made of a value it computed
OwnStateOnly(r) ==
  /\ r.job # None => r.job = [id |-> r.payload.id] @@ r.payload.input
  /\ r.retries + r.pending <= Cardinality(FetchesOf(r))
  /\ r.pc = "poll" => r.retries + r.pending = Cardinality(FetchesOf(r))
  /\ \A i \in 1..Len(r.io) : r.io[i].op = "GET /history" => r.prompt_id # None
  /\ r.images_result # None /\ r.images_result.status = "success" =>
       \E fs_txt \in SUBSET txt_candidates(r.history.outputs) :
         LET paths == ExpectedPaths(r.history.outputs, fs_txt)
         IN \E fs_pub \in SUBSET {paths[i] : i \in 1..Len(paths)} :
              r.images_result.message = List(PublishedList(r.job.output, env, r.job.id, paths, fs_pub))
  /\ r.pc = "done" /\ "status" \in DOMAIN r.result =>
       \/ r.images_result # None /\ r.result = r.images_result @@ [refresh_worker |-> REFRESH_WORKER(env)]
       \/ r.images_result = None /\ r.result \in {r.upload_result, r.upload_file_result}

\* C20: with two invocations of handler interleaved in every way, the poll
\* counter, the collected paths and the result of each are those of its own
\* job and responses: what one invocation does never shows in the other
C20_InvocationsDoNotInterfere ==
  parked # None => OwnStateOnly(handler_locals) /\ OwnStateOnly(parked)

\* both invocations are in the poll loop, with different counters
C20_Witness ==
  /\ parked # None /\ pc = "poll" /\ parked.pc = "poll"
  /\ retries = 1 /\ parked.retries = 0 /\ Cardinality(FetchesOf(parked)) = 1
  /\ payload.id # parked.payload.id


\* this step is a status fetch that was answered
FetchAnswered ==
  /\ pc = "poll" /\ Len(io') = Len(io) + 1
  /\ io'[Len(io')].op = "GET /history" /\ io'[Len(io')].resp = "json"

ProbeRequests ==
  LET gets == CallsOf("GET /")
  IN /\ Cardinality(gets) <= ApiMaxRetries
     /\ \A i \in gets : io[i].resp = "200" => \A k \in gets : k <= i
     /\ (\A i \in gets : io[i].resp # "200") => Cardinality(gets) = ApiMaxRetries
     /\ server_up = [t |-> "bool", v |-> \E i \in gets : io[i].resp = "200"]

\* C22: the probe makes at most COMFY_API_AVAILABLE_MAX_RETRIES requests and
\* stops at the first 200, and handler goes on to the upload of the images
\* after it whether the engine answered or the attempts ran out
C22_ProbeOutcomeIsIgnored ==
  [][pc = "check_server" => pc' = "upload_images" /\ result' = None /\ exc' = None /\ ProbeRequests']_vars

\* the upload stage is entered after a probe that used up its attempts
C22_Witness ==
  /\ pc = "upload_images" /\ server_up = [t |-> "bool", v |-> FALSE]
  /\ Cardinality(CallsOf("GET /")) = ApiMaxRetries


\* the object keys the job has stored in its bucket; the bucket held none of
\* them before and handler deletes nothing
StoredKeys == {io[i].arg : i \in {k \in CallsOf("s3 upload_file") : io[k].resp = "ok"}}

\* C23: after a publish to the job's bucket in which an upload failed, the
\* bucket holds no object of the job
C23_NoPartialPublish ==
  ObjectStorageMode /\ FailedUploads # {} => StoredKeys = {}


\* the row of the trigger was updated, or the update was tried
Handled == CallsOf("supabase update") # {}

\* C24: handle is invoked only after process_output_images returned a
\* success list, with every earlier stage passed; a job that handler ends
\* with an error result, or with an exception other than one of handle
\* itself, has not had handle invoked
C24_HandleOnlyAfterSuccess ==
  /\ Handled =>
       /\ images_result # None /\ images_result.status = "success" /\ images_result.message.t = "list"
       /\ StagesSucceeded
       /\ pc \in {"done", "raised"}
  /\ pc = "done" /\ ~ReturnedSuccess => ~Handled
  /\ pc = "raised" /\ exc.t # "APIError" => ~Handled

\* publishing failed for a job with a trigger: handler ended, handle was
\* not invoked
C24_Witness ==
  /\ trigger_handler # None /\ images_result # None /\ images_result.status = "error"
  /\ pc \in {"done", "raised"} /\ ~Handled


\* C25: a result of status success holds a list with at least one string
C25_SuccessListIsNotEmpty ==
  ReturnedSuccess => result.message.t = "list" /\ result.message.v # <<>>


\* the uploads to the job's bucket that succeeded
StoredUploads == {i \in CallsOf("s3 upload_file") : io[i].resp = "ok"}

\* C26: in a publish to the job's bucket no two uploads use the same object
\* key, and the URLs of a success list are pairwise distinct
C26_ObjectKeysAreDistinct ==
  ObjectStorageMode =>
    /\ \A i \in StoredUploads : \A k \in StoredUploads : i # k => io[i].arg # io[k].arg
    /\ images_result # None /\ images_result.status = "success" =>
         \A i \in 1..Len(images_result.message.v) : \A k \in 1..Len(images_result.message.v) :
           i # k => images_result.message.v[i] # images_result.message.v[k]

====
